---- MODULE Spec2Model ----
(***************************************************************************)
(* A model of home12.py: the Field / Record / AddressBook data model, its  *)
(* persistence, its search, and the command loop of main().                *)
(*                                                                         *)
(* Python text is modelled by TLA+ strings (sequences of characters), the  *)
(* Python methods used by the program (isdigit, lower, split, startswith,  *)
(* "in", join, int, str) are computed character by character.              *)
(* A raised exception is modelled by its class name in a field `exc`       *)
(* ("" when the call returns normally).                                    *)
(***************************************************************************)
EXTENDS Integers, Sequences, FiniteSets, TLC

VARIABLES
    rec,       \* the Record object the last call was given or acted on
    data,      \* AddressBook.data: insertion-ordered dict, key -> Record
    files,     \* the file system: file name -> content
    op,        \* the method called last
    args,      \* its arguments (texts)
    exc,       \* the exception it raised, "" when it returned
    ret,       \* what it returned
    today,     \* date.today() as read by the last days_to_birthday call
    pc,        \* main(): "running", "exited" (break) or "crashed"
    command,   \* main(): the last input line, lower-cased
    handler,   \* main(): the handler the last line was dispatched to
    response   \* main(): the response of the last line

vars == <<rec, data, files, op, args, exc, ret, today, pc, command, handler, response>>

----------------------------------------------------------------------------
(* Bounds of the model *)

\* longest phone list a record-level run builds
MaxPhones == 3
\* longest phone list of a record stored in the book
MaxBookPhones == 2

----------------------------------------------------------------------------
(* Python str methods *)

CharAt(s, i) == SubSeq(s, i, i)

DigitChars == {"0", "1", "2", "3", "4", "5", "6", "7", "8", "9"}

UpperChars == <<"A", "B", "C", "D", "E", "F", "G", "H", "I", "J", "K", "L", "M",
                "N", "O", "P", "Q", "R", "S", "T", "U", "V", "W", "X", "Y", "Z">>

LowerChars == <<"a", "b", "c", "d", "e", "f", "g", "h", "i", "j", "k", "l", "m",
                "n", "o", "p", "q", "r", "s", "t", "u", "v", "w", "x", "y", "z">>

WhitespaceChars == {" ", "\t"}

\* str.isdigit(): non-empty and every character a decimal digit (the texts of
\* the model are ASCII)
str_isdigit(s) ==
    /\ Len(s) > 0
    /\ \A i \in 1..Len(s) : CharAt(s, i) \in DigitChars

char_lower(c) ==
    IF \E i \in 1..Len(UpperChars) : UpperChars[i] = c
    THEN LowerChars[CHOOSE i \in 1..Len(UpperChars) : UpperChars[i] = c]
    ELSE c

RECURSIVE str_lower(_)
\* str.lower()
str_lower(s) ==
    IF Len(s) = 0 THEN ""
    ELSE char_lower(Head(s)) \o str_lower(Tail(s))

\* q in s
str_in(q, s) ==
    \E i \in 0..(Len(s) - Len(q)) : SubSeq(s, i + 1, i + Len(q)) = q

\* s.startswith(p)
str_startswith(s, p) ==
    /\ Len(p) <= Len(s)
    /\ SubSeq(s, 1, Len(p)) = p

RECURSIVE str_split_from(_, _, _)
\* the words of s from position i on, cur being the word read so far
str_split_from(s, i, cur) ==
    IF i > Len(s)
    THEN IF cur = "" THEN << >> ELSE <<cur>>
    ELSE IF CharAt(s, i) \in WhitespaceChars
         THEN IF cur = "" THEN str_split_from(s, i + 1, "")
              ELSE <<cur>> \o str_split_from(s, i + 1, "")
         ELSE str_split_from(s, i + 1, cur \o CharAt(s, i))

\* s.split(): the whitespace-separated words of s
str_split(s) == str_split_from(s, 1, "")

RECURSIVE str_split_sep_from(_, _, _, _)
str_split_sep_from(s, sep, i, cur) ==
    IF i > Len(s) THEN <<cur>>
    ELSE IF CharAt(s, i) = sep
         THEN <<cur>> \o str_split_sep_from(s, sep, i + 1, "")
         ELSE str_split_sep_from(s, sep, i + 1, cur \o CharAt(s, i))

\* s.split(sep) for a one-character sep: empty parts are kept
str_split_sep(s, sep) == str_split_sep_from(s, sep, 1, "")

RECURSIVE str_join(_, _)
\* sep.join(parts)
str_join(sep, parts) ==
    IF Len(parts) = 0 THEN ""
    ELSE IF Len(parts) = 1 THEN parts[1]
    ELSE parts[1] \o sep \o str_join(sep, Tail(parts))

RECURSIVE str_strip_left(_)
str_strip_left(s) ==
    IF Len(s) > 0 /\ Head(s) \in WhitespaceChars THEN str_strip_left(Tail(s)) ELSE s

RECURSIVE str_strip_right(_)
str_strip_right(s) ==
    IF Len(s) > 0 /\ CharAt(s, Len(s)) \in WhitespaceChars
    THEN str_strip_right(SubSeq(s, 1, Len(s) - 1))
    ELSE s

\* s.strip() and s.rstrip()
str_strip(s) == str_strip_right(str_strip_left(s))

digit_value(c) == CHOOSE n \in 0..9 : CharAt("0123456789", n + 1) = c

RECURSIVE digits_value(_)
digits_value(s) ==
    IF Len(s) = 0 THEN 0
    ELSE 10 * digits_value(SubSeq(s, 1, Len(s) - 1)) + digit_value(CharAt(s, Len(s)))

\* int(s) for texts of spaces, an optional sign and decimal digits (the texts the
\* model feeds it hold no underscore): ok is FALSE when int raises ValueError
py_int(s) ==
    LET t == str_strip(s)
        signed == Len(t) > 0 /\ Head(t) \in {"+", "-"}
        body == IF signed THEN Tail(t) ELSE t
    IN  IF str_isdigit(body)
        THEN [ok |-> TRUE,
              val |-> IF signed /\ Head(t) = "-" THEN 0 - digits_value(body)
                      ELSE digits_value(body)]
        ELSE [ok |-> FALSE, val |-> 0]

RECURSIVE py_str(_)
\* str(n) of an integer n >= 0
py_str(n) ==
    IF n < 10 THEN CharAt("0123456789", n + 1)
    ELSE py_str(n \div 10) \o CharAt("0123456789", (n % 10) + 1)

----------------------------------------------------------------------------
(* Python values *)

\* None, and a value that is not None
None == [isNone |-> TRUE, v |-> ""]
Some(v) == [isNone |-> FALSE, v |-> v]

\* the outcome of a call: it raised `e`, or returned `v`
Raised(e) == [exc |-> e, val |-> None]
Returned(v) == [exc |-> "", val |-> v]

----------------------------------------------------------------------------
(* Field, Name, Phone, Birthday *)

\* Field.__init__: the value is stored as given; validate is not called
Field_init(value) == value

\* Phone.validate: TRUE when it returns, FALSE when it raises ValueError
Phone_validate(value) == str_isdigit(value)

\* the days of each month of the reference year 2000 (a leap year)
DaysInMonth2000 == <<31, 29, 31, 30, 31, 30, 31, 31, 30, 31, 30, 31>>

\* date(year=2000, month=month, day=day) is a date
date2000_ok(month, day) ==
    /\ month \in 1..12
    /\ day \in 1..DaysInMonth2000[month]

\* Birthday.validate: TRUE when it returns, FALSE when it raises ValueError
Birthday_validate(value) ==
    LET parts == str_split_sep(value, ".")
    IN  /\ Len(parts) = 2
        /\ py_int(parts[1]).ok
        /\ py_int(parts[2]).ok
        /\ LET day == py_int(parts[1]).val
               month == py_int(parts[2]).val
           IN  /\ date2000_ok(month, day)
               /\ ~(month < 1 \/ month > 12)
               /\ ~(day < 1 \/ day > 31)

\* Field.value setter on a field holding `old`: validate, then store.
\* `validates` is the subtype's validate applied to new_value.
Field_set_value(old, new_value, validates) ==
    IF validates THEN Returned(Some(new_value)) ELSE Raised("ValueError")

----------------------------------------------------------------------------
(* Record *)

\* `if birthday`: None and the empty text are false
truthy(b) == ~b.isNone /\ b.v # ""

\* Record.__init__(name, birthday): birthday is None or a text
Record_init(name, birthday) ==
    [name |-> Field_init(name),
     phone |-> << >>,
     birthday |-> IF truthy(birthday) THEN Some(Field_init(birthday.v)) ELSE None]

\* Record.add_phone: appends Phone(phone)
add_phone(r, phone) == [r EXCEPT !.phone = Append(@, Field_init(phone))]

RECURSIVE seq_without(_, _)
seq_without(s, x) ==
    IF Len(s) = 0 THEN << >>
    ELSE IF Head(s) = x THEN seq_without(Tail(s), x)
    ELSE <<Head(s)>> \o seq_without(Tail(s), x)

\* Record.remove_phone: keeps the phones whose value differs
remove_phone(r, phone) == [r EXCEPT !.phone = seq_without(@, phone)]

\* a variant of edit_phone without the break: every phone equal to old_phone
\* is assigned
edit_phone_all(r, old_phone, new_phone) ==
    IF \E i \in 1..Len(r.phone) : r.phone[i] = old_phone
    THEN IF ~Phone_validate(new_phone)
         THEN [exc |-> "ValueError", rec |-> r]
         ELSE [exc |-> "",
               rec |-> [r EXCEPT !.phone = [i \in 1..Len(r.phone) |->
                                               IF r.phone[i] = old_phone THEN new_phone
                                               ELSE r.phone[i]]]]
    ELSE [exc |-> "", rec |-> r]

\* Record.edit_phone: [exc, rec]; the loop stops at the first phone equal to
\* old_phone and assigns it through the validating setter
edit_phone(r, old_phone, new_phone) ==
    IF \E i \in 1..Len(r.phone) : r.phone[i] = old_phone
    THEN LET i == CHOOSE j \in 1..Len(r.phone) :
                      /\ r.phone[j] = old_phone
                      /\ \A k \in 1..(j - 1) : r.phone[k] # old_phone
             set == Field_set_value(r.phone[i], new_phone, Phone_validate(new_phone))
         IN  IF set.exc # ""
             THEN [exc |-> set.exc, rec |-> r]
             ELSE [exc |-> "", rec |-> [r EXCEPT !.phone[i] = set.val.v]]
    ELSE [exc |-> "", rec |-> r]

\* Record.days_to_birthday with date.today() = t: without a birthday the method
\* falls off its end and returns None; with one, self.birthday.value is the
\* text given to Birthday(), and str.replace(year=...) raises TypeError
days_to_birthday(r, t) ==
    IF ~r.birthday.isNone
    THEN Raised("TypeError")
    ELSE Returned(None)

----------------------------------------------------------------------------
(* dict: insertion-ordered, a sequence of [key, rec] with distinct keys *)

dict_keys(d) == {d[i].key : i \in 1..Len(d)}

\* d[k], for k a key of d
dict_get(d, k) == d[CHOOSE i \in 1..Len(d) : d[i].key = k].rec

\* d[k] = v: an existing key keeps its place, a new key goes last
dict_set(d, k, v) ==
    IF k \in dict_keys(d)
    THEN [i \in 1..Len(d) |-> IF d[i].key = k THEN [key |-> k, rec |-> v] ELSE d[i]]
    ELSE Append(d, [key |-> k, rec |-> v])

\* list(d.values())
dict_values(d) == [i \in 1..Len(d) |-> d[i].rec]

RECURSIVE dict_from_records(_)
\* {record.name.value: record for record in records}
dict_from_records(records) ==
    IF Len(records) = 0 THEN << >>
    ELSE LET n == Len(records)
         IN  dict_set(dict_from_records(SubSeq(records, 1, n - 1)),
                      records[n].name, records[n])

----------------------------------------------------------------------------
(* Files *)

\* a file that does not exist
NoFile == [kind |-> "missing", hasContacts |-> FALSE, contacts |-> << >>]

\* a file whose text json.load cannot parse; '{"contacts": [{"name": ' is one
NotJson == [kind |-> "text", hasContacts |-> FALSE, contacts |-> << >>]

\* a file holding the JSON object {"contacts": [...]}
JsonContacts(entries) == [kind |-> "json", hasContacts |-> TRUE, contacts |-> entries]

\* a file holding a JSON object without the key "contacts"
JsonOther == [kind |-> "json", hasContacts |-> FALSE, contacts |-> << >>]

\* one JSON object of the contacts list: `keys` are the keys it has
JsonEntry(keys, name, phones, birthday) ==
    [keys |-> keys, name |-> name,
     phone |-> [i \in 1..Len(phones) |-> [value |-> phones[i]]],
     birthday |-> birthday]

AllKeys == {"name", "phone", "birthday"}

----------------------------------------------------------------------------
(* AddressBook *)

\* AddressBook.__init__
AddressBook_init == << >>

\* a variant of add_record that keeps the record a name already has
add_record_keep_first(d, record) ==
    IF record.name \in dict_keys(d) THEN d ELSE dict_set(d, record.name, record)

\* AddressBook.add_record
add_record(d, record) == dict_set(d, record.name, record)

\* AddressBook.save_address_book: [exc, file]. open(filename, 'w') empties the
\* file; record.__dict__ holds Name, Phone and Birthday objects, which json.dump
\* cannot serialize: with any record it raises TypeError after it wrote
\* '{"contacts": [{"name": ', and the with block closes the file on that text
save_address_book(d) ==
    IF Len(d) = 0
    THEN [exc |-> "", file |-> JsonContacts(<< >>)]
    ELSE [exc |-> "TypeError", file |-> NotJson]

RECURSIVE add_phones(_, _)
\* for phone in record_data['phone']: record.add_phone(phone['value'])
add_phones(r, phones) ==
    IF Len(phones) = 0 THEN r
    ELSE add_phones(add_phone(r, Head(phones).value), Tail(phones))

RECURSIVE load_records(_)
\* the loop of load_address_book over data['contacts']: [exc, records]
load_records(entries) ==
    IF Len(entries) = 0 THEN [exc |-> "", records |-> << >>]
    ELSE LET e == Head(entries)
         IN  IF ~(AllKeys \subseteq e.keys)
             THEN [exc |-> "KeyError", records |-> << >>]
             ELSE LET record == add_phones(Record_init(e.name, e.birthday), e.phone)
                      rest == load_records(Tail(entries))
                  IN  IF rest.exc # "" THEN rest
                      ELSE [exc |-> "", records |-> <<record>> \o rest.records]

\* AddressBook.load_address_book on a file of content `file`: [exc, data];
\* self.data is assigned last, after every record was built
load_address_book(d, file) ==
    IF file.kind = "missing" THEN [exc |-> "FileNotFoundError", data |-> d]
    ELSE IF file.kind = "text" THEN [exc |-> "JSONDecodeError", data |-> d]
    ELSE IF ~file.hasContacts THEN [exc |-> "KeyError", data |-> d]
    ELSE LET loaded == load_records(file.contacts)
         IN  IF loaded.exc # "" THEN [exc |-> loaded.exc, data |-> d]
             ELSE [exc |-> "", data |-> dict_from_records(loaded.records)]

RECURSIVE search_from(_, _, _)
search_from(d, query, i) ==
    IF i > Len(d) THEN << >>
    ELSE LET record == d[i].rec
             hit == \/ str_in(query, str_lower(record.name))
                    \/ \E j \in 1..Len(record.phone) : str_in(query, record.phone[j])
         IN  (IF hit THEN <<record>> ELSE << >>) \o search_from(d, query, i + 1)

\* AddressBook.search_contacts
search_contacts(d, query) == search_from(d, query, 1)

----------------------------------------------------------------------------
(* The inputs the model draws from *)

\* phone texts given to add_phone and edit_phone: digit-only texts and others
PhoneTexts == {"1", "21", "x"}

\* birthday arguments of Record(): None, the empty text, a date, a text that
\* Birthday.validate rejects
BirthdayArgs == {None, Some(""), Some("1.3"), Some("31.4")}

\* values of date.today()
Todays == {[y |-> 2023, m |-> 3, d |-> 1], [y |-> 2023, m |-> 3, d |-> 2],
           [y |-> 2024, m |-> 3, d |-> 2], [y |-> 2024, m |-> 12, d |-> 31]}

\* contact names given to the record and book methods, queries given to search
NameTexts == {"jo", "Al"}
QueryTexts == {"jo", "JO", "a", "1", "z"}

FileNames == {"a", "b"}

\* what the file "a" may hold when the program starts
InitialFiles ==
    {NoFile, NotJson, JsonOther, JsonContacts(<< >>),
     JsonContacts(<<JsonEntry(AllKeys, "jo", <<"21">>, Some("29.2"))>>),
     JsonContacts(<<JsonEntry(AllKeys, "Al", <<"21", "x">>, None),
                    JsonEntry(AllKeys, "jo", << >>, Some("31.4"))>>),
     JsonContacts(<<JsonEntry(AllKeys, "jo", <<"21">>, None),
                    JsonEntry({"name", "birthday"}, "Al", << >>, None)>>),
     JsonContacts(<<JsonEntry(AllKeys, "jo", <<"x">>, None),
                    JsonEntry(AllKeys, "jo", <<"21">>, None)>>)}

----------------------------------------------------------------------------
(* Record-level calls on the Record object `rec` *)

NoCall == [y |-> 2000, m |-> 1, d |-> 1]

MainIdle ==
    /\ pc = "running"
    /\ command = ""
    /\ handler = ""
    /\ response = ""

InitRecord ==
    /\ \E name \in NameTexts, birthday \in BirthdayArgs :
           rec = Record_init(name, birthday)
    /\ data = AddressBook_init
    /\ files = [f \in FileNames |-> NoFile]
    /\ op = "Record"
    /\ args = << >>
    /\ exc = ""
    /\ ret = None
    /\ today = NoCall
    /\ MainIdle

RecAddPhone(phone) ==
    /\ Len(rec.phone) < MaxPhones
    /\ rec' = add_phone(rec, phone)
    /\ op' = "add_phone"
    /\ args' = <<phone>>
    /\ exc' = ""
    /\ ret' = None
    /\ UNCHANGED <<data, files, today, pc, command, handler, response>>

RecRemovePhone(phone) ==
    /\ rec' = remove_phone(rec, phone)
    /\ op' = "remove_phone"
    /\ args' = <<phone>>
    /\ exc' = ""
    /\ ret' = None
    /\ UNCHANGED <<data, files, today, pc, command, handler, response>>

RecEditPhone(old_phone, new_phone) ==
    LET r == edit_phone(rec, old_phone, new_phone)
    IN  /\ rec' = r.rec
        /\ op' = "edit_phone"
        /\ args' = <<old_phone, new_phone>>
        /\ exc' = r.exc
        /\ ret' = None
        /\ UNCHANGED <<data, files, today, pc, command, handler, response>>

RecDaysToBirthday(t) ==
    LET r == days_to_birthday(rec, t)
    IN  /\ op' = "days_to_birthday"
        /\ args' = << >>
        /\ exc' = r.exc
        /\ ret' = r.val
        /\ today' = t
        /\ UNCHANGED <<rec, data, files, pc, command, handler, response>>

NextRecord ==
    \/ \E phone \in PhoneTexts : RecAddPhone(phone)
    \/ \E phone \in PhoneTexts : RecRemovePhone(phone)
    \/ \E old_phone \in PhoneTexts, new_phone \in PhoneTexts \cup {""} :
           RecEditPhone(old_phone, new_phone)
    \/ \E t \in Todays : RecDaysToBirthday(t)

SpecRecord == InitRecord /\ [][NextRecord]_vars

----------------------------------------------------------------------------
(* Calls on the AddressBook and on the records it holds *)

\* `rec` when the last call was given no Record object
NoRecord == [name |-> "", phone |-> << >>, birthday |-> None]

Init ==
    /\ rec = NoRecord
    /\ data = AddressBook_init
    /\ \E c \in InitialFiles : files = [f \in FileNames |-> IF f = "a" THEN c ELSE NoFile]
    /\ op = "AddressBook"
    /\ args = << >>
    /\ exc = ""
    /\ ret = None
    /\ today = NoCall
    /\ MainIdle

\* record = Record(name, birthday); record.add_phone(p) for p in phones;
\* address_book.add_record(record)
BookAddRecord(name, birthday, phones) ==
    LET record == add_phones(Record_init(name, birthday),
                             [i \in 1..Len(phones) |-> [value |-> phones[i]]])
    IN  /\ rec' = record
        /\ data' = add_record(data, record)
        /\ op' = "add_record"
        /\ args' = <<name>>
        /\ exc' = ""
        /\ ret' = None
        /\ UNCHANGED <<files, today, pc, command, handler, response>>

\* address_book.data[key].add_phone(phone)
BookAddPhone(key, phone) ==
    /\ key \in dict_keys(data)
    /\ Len(dict_get(data, key).phone) < MaxBookPhones
    /\ rec' = add_phone(dict_get(data, key), phone)
    /\ data' = dict_set(data, key, rec')
    /\ op' = "add_phone"
    /\ args' = <<key, phone>>
    /\ exc' = ""
    /\ ret' = None
    /\ UNCHANGED <<files, today, pc, command, handler, response>>

BookSave(filename) ==
    LET r == save_address_book(data)
    IN  /\ files' = [files EXCEPT ![filename] = r.file]
        /\ op' = "save_address_book"
        /\ args' = <<filename>>
        /\ exc' = r.exc
        /\ ret' = None
        /\ rec' = NoRecord
        /\ UNCHANGED <<data, today, pc, command, handler, response>>

BookLoad(filename) ==
    LET r == load_address_book(data, files[filename])
    IN  /\ data' = r.data
        /\ op' = "load_address_book"
        /\ args' = <<filename>>
        /\ exc' = r.exc
        /\ ret' = None
        /\ rec' = NoRecord
        /\ UNCHANGED <<files, today, pc, command, handler, response>>

BookSearch(query) ==
    /\ op' = "search_contacts"
    /\ args' = <<query>>
    /\ exc' = ""
    /\ ret' = search_contacts(data, query)
    /\ rec' = NoRecord
    /\ UNCHANGED <<data, files, today, pc, command, handler, response>>

\* the phone texts, birthdays and phone lists a caller gives a record of the book
BookPhoneTexts == {"21", "x"}
BookBirthdayArgs == {None, Some("29.2")}
NewPhoneLists == {<< >>} \cup {<<p>> : p \in BookPhoneTexts}

\* the files the book is saved to and loaded from
BookFileNames == {"a"}

Next ==
    \/ \E name \in NameTexts, birthday \in BookBirthdayArgs, phones \in NewPhoneLists :
           BookAddRecord(name, birthday, phones)
    \/ \E key \in NameTexts, phone \in BookPhoneTexts : BookAddPhone(key, phone)
    \/ \E filename \in BookFileNames : BookSave(filename)
    \/ \E filename \in BookFileNames : BookLoad(filename)
    \/ \E query \in QueryTexts : BookSearch(query)

Spec == Init /\ [][Next]_vars

----------------------------------------------------------------------------
(* The command handlers. A handler's outcome is [exc, msg, response, data]:  *)
(* the exception that left it (msg is its str()), or its response and the    *)
(* book after it.                                                            *)

HandlerReturn(text, d) == [exc |-> "", msg |-> "", response |-> text, data |-> d]
HandlerRaise(e, m, d) == [exc |-> e, msg |-> m, response |-> "", data |-> d]

\* input_error's wrapper around a handler outcome: KeyError, ValueError and
\* IndexError become a response, any other exception goes on to the caller
input_error(r) ==
    IF r.exc = "KeyError" THEN HandlerReturn("Contact not found.", r.data)
    ELSE IF r.exc = "ValueError" THEN HandlerReturn(r.msg, r.data)
    ELSE IF r.exc = "IndexError" THEN HandlerReturn("Invalid command.", r.data)
    ELSE r

handle_hello == "How can I help you?"

handle_add(name, phone, d, birthday) ==
    input_error(
        IF name \in dict_keys(d)
        THEN HandlerReturn("Contact added successfully.", d)
        ELSE LET record == add_phone(Record_init(name, birthday), phone)
             IN  HandlerReturn("Contact added", add_record(d, record)))

\* a variant of handle_change that puts the phone in place of the last one
handle_change_replace(name, phone, d) ==
    input_error(
        IF name \notin dict_keys(d)
        THEN HandlerReturn("Contact not found.", d)
        ELSE LET record == dict_get(d, name)
                 n == Len(record.phone)
                 kept == IF n = 0 THEN << >> ELSE SubSeq(record.phone, 1, n - 1)
             IN  HandlerReturn("Phone number changed successfully.",
                               dict_set(d, name,
                                        [record EXCEPT !.phone = Append(kept, phone)])))

handle_change(name, phone, d) ==
    input_error(
        IF name \notin dict_keys(d)
        THEN HandlerReturn("Contact not found.", d)
        ELSE LET record == dict_get(d, name)
             IN  HandlerReturn("Phone number changed successfully.",
                               dict_set(d, name, add_phone(record, phone))))

handle_phone(name, d) ==
    input_error(
        IF name \notin dict_keys(d)
        THEN HandlerReturn("Contact not found.", d)
        ELSE HandlerReturn(str_join(", ", dict_get(d, name).phone), d))

handle_days_to_birthday(name, d, t) ==
    input_error(
        IF name \notin dict_keys(d)
        THEN HandlerReturn("Contact not found.", d)
        ELSE LET days == days_to_birthday(dict_get(d, name), t)
             IN  IF days.exc # "" THEN HandlerRaise(days.exc, "", d)
                 ELSE IF days.val.isNone
                 THEN HandlerReturn("No birthday date provided.", d)
                 ELSE HandlerReturn("Days until " \o name \o "'s birthday: "
                                    \o py_str(days.val.v), d))

\* the default page_size of handle_show_all
page_size == 5

RECURSIVE contact_lines(_)
\* one line "name: phone, phone\n" per record
contact_lines(records) ==
    IF Len(records) = 0 THEN ""
    ELSE Head(records).name \o ": " \o str_join(", ", Head(records).phone) \o "\n"
         \o contact_lines(Tail(records))

handle_show_all(d, page) ==
    IF Len(d) = 0 THEN "No contacts found."
    ELSE LET total_pages == (Len(d) + page_size - 1) \div page_size
             start_index == (page - 1) * page_size
             end_index == start_index + page_size
             last == IF end_index < Len(d) THEN end_index ELSE Len(d)
         IN  IF page < 1 \/ page > total_pages THEN "Invalid page number."
             ELSE str_strip(contact_lines(SubSeq(dict_values(d), start_index + 1, last))
                            \o "Page " \o py_str(page) \o "/" \o py_str(total_pages))

----------------------------------------------------------------------------
(* main(): one turn of the while loop *)

\* the turn ended at print(response)
Printed(h, text, d, fs) ==
    [exc |-> "", response |-> text, data |-> d, files |-> fs, handler |-> h, brk |-> FALSE]

\* an exception left the loop
Crashed(h, e, d, fs) ==
    [exc |-> e, response |-> "", data |-> d, files |-> fs, handler |-> h, brk |-> FALSE]

\* a handler outcome, back in main
FromHandler(h, r, fs) ==
    IF r.exc # "" THEN Crashed(h, r.exc, r.data, fs)
    ELSE Printed(h, r.response, r.data, fs)

RECURSIVE result_lines(_)
result_lines(results) ==
    IF Len(results) = 0 THEN ""
    ELSE Head(results).name \o ": " \o str_join(", ", Head(results).phone) \o "\n"
         \o result_lines(Tail(results))

\* the if/elif chain of main on the lower-cased input line cmd, params being
\* cmd.split() and date.today() being t
main_step(d, fs, cmd, params, t) ==
    LET n == Len(params)
    IN  IF cmd = "hello" THEN Printed("handle_hello", handle_hello, d, fs)
        ELSE IF str_startswith(cmd, "add")
        THEN IF n = 3
             THEN FromHandler("handle_add", handle_add(params[2], params[3], d, None), fs)
             ELSE IF n = 4
             THEN FromHandler("handle_add",
                              handle_add(params[2], params[3], d, Some(params[4])), fs)
             ELSE Printed("", "Invalid command.", d, fs)
        ELSE IF str_startswith(cmd, "change")
        THEN IF n # 3 THEN Crashed("", "ValueError", d, fs)
             ELSE FromHandler("handle_change", handle_change(params[2], params[3], d), fs)
        ELSE IF str_startswith(cmd, "phone")
        THEN IF n # 2 THEN Crashed("", "ValueError", d, fs)
             ELSE FromHandler("handle_phone", handle_phone(params[2], d), fs)
        ELSE IF str_startswith(cmd, "days to birthday")
        THEN IF n # 2 THEN Crashed("", "ValueError", d, fs)
             ELSE FromHandler("handle_days_to_birthday",
                              handle_days_to_birthday(params[2], d, t), fs)
        ELSE IF str_startswith(cmd, "show all")
        THEN IF n > 2
             THEN IF py_int(params[3]).ok
                  THEN Printed("handle_show_all",
                               handle_show_all(d, py_int(params[3]).val), d, fs)
                  ELSE Crashed("", "ValueError", d, fs)
             ELSE Printed("handle_show_all", handle_show_all(d, 1), d, fs)
        ELSE IF str_startswith(cmd, "save")
        THEN IF n # 2 THEN Crashed("", "ValueError", d, fs)
             ELSE LET saved == save_address_book(d)
                      written == [f \in DOMAIN fs |->
                                     IF f = params[2] THEN saved.file ELSE fs[f]]
                  IN  IF saved.exc # ""
                      THEN Crashed("save_address_book", saved.exc, d, written)
                      ELSE Printed("save_address_book", "Address book saved.", d, written)
        ELSE IF str_startswith(cmd, "load")
        THEN IF n # 2 THEN Crashed("", "ValueError", d, fs)
             ELSE LET file == IF params[2] \in DOMAIN fs THEN fs[params[2]] ELSE NoFile
                      loaded == load_address_book(d, file)
                  IN  IF loaded.exc # ""
                      THEN Crashed("load_address_book", loaded.exc, loaded.data, fs)
                      ELSE Printed("load_address_book", "Address book loaded.",
                                   loaded.data, fs)
        ELSE IF str_startswith(cmd, "search")
        THEN IF n # 2 THEN Crashed("", "ValueError", d, fs)
             ELSE LET results == search_contacts(d, str_lower(params[2]))
                  IN  IF Len(results) > 0
                      THEN Printed("search_contacts",
                                   "Search results:\n" \o result_lines(results), d, fs)
                      ELSE Printed("search_contacts",
                                   "No contacts found for the search query.", d, fs)
        ELSE IF cmd \in {"good bye", "close", "exit"}
        THEN [exc |-> "", response |-> "Good bye!", data |-> d, files |-> fs,
              handler |-> "", brk |-> TRUE]
        ELSE Printed("", "Invalid command.", d, fs)

\* the lines typed at the prompt; the files they name are in FileNames
InputLines ==
    {"hello", "add jo 21", "ADD Jo 21 29.2", "add al x", "add jo", "addx al 21",
     "change jo 21", "change jo x", "change al 7", "change jo",
     "phone jo", "phone", "days to birthday jo",
     "show all", "show all 2", "show all x",
     "save a", "save", "load a", "load b",
     "search JO", "search 2", "search",
     "good bye", "close", "exit", "foo", ""}

\* main() reads a line and answers it; the loop goes on while pc = "running"
Main(line, t) ==
    \E cmd \in {str_lower(line)} :
    \E params \in {str_split(cmd)} :
    \E r \in {main_step(data, files, cmd, params, t)} :
        /\ pc = "running"
        /\ \A i \in 1..Len(r.data) : Len(r.data[i].rec.phone) <= MaxBookPhones
        /\ data' = r.data
        /\ files' = r.files
        /\ command' = cmd
        /\ handler' = r.handler
        /\ exc' = r.exc
        /\ response' = IF r.exc # "" THEN response ELSE r.response
        /\ pc' = IF r.exc # "" THEN "crashed" ELSE IF r.brk THEN "exited" ELSE "running"
        /\ op' = "main"
        /\ args' = <<line>>
        /\ UNCHANGED <<rec, ret, today>>

\* date.today() during a run of main
MainTodays == {[y |-> 2024, m |-> 3, d |-> 1]}

NextMain == \E line \in InputLines, t \in MainTodays : Main(line, t)

SpecMain == Init /\ [][NextMain]_vars

----------------------------------------------------------------------------
(* Properties *)

Occurs(s, x) == \E i \in 1..Len(s) : s[i] = x

FirstIndex(s, x) ==
    CHOOSE i \in 1..Len(s) : s[i] = x /\ \A k \in 1..(i - 1) : s[k] # x

IsPrefix(s, t) == Len(s) <= Len(t) /\ SubSeq(t, 1, Len(s)) = s

\* every phone of r is digit-only text, its birthday a valid day.month
FieldsValid(r) ==
    /\ \A j \in 1..Len(r.phone) : Phone_validate(r.phone[j])
    /\ r.birthday.isNone \/ Birthday_validate(r.birthday.v)

\* C1: in every reachable state every Phone held by a record of the book is
\* digit-only text and every Birthday is a valid day.month (a Phone or Birthday
\* built from any other text is refused and not stored).
C1_StoredFieldsValid ==
    \A i \in 1..Len(data) : FieldsValid(data[i].rec)

\* C2: no error leaves the command loop: every line is answered and the loop
\* goes on, and it ends only on "good bye", "close" or "exit".
C2_NoErrorLeavesLoop ==
    /\ pc # "crashed"
    /\ pc = "exited" => command \in {"good bye", "close", "exit"}

\* the command surface: a recognized keyword with the right number and form of
\* arguments
WellFormed(cmd) ==
    LET p == str_split(cmd)
        n == Len(p)
    IN  /\ n >= 1
        /\ \/ p = <<"hello">>
           \/ p[1] = "add" /\ n \in {3, 4}
           \/ p[1] = "change" /\ n = 3
           \/ p[1] = "phone" /\ n = 2
           \/ n = 4 /\ SubSeq(p, 1, 3) = <<"days", "to", "birthday">>
           \/ n = 2 /\ p = <<"show", "all">>
           \/ n = 3 /\ SubSeq(p, 1, 2) = <<"show", "all">> /\ py_int(p[3]).ok
           \/ p[1] \in {"save", "load", "search"} /\ n = 2
           \/ p = <<"good", "bye">>
           \/ p = <<"close">>
           \/ p = <<"exit">>

\* C3: a line whose keyword is not a recognized command, or whose arguments
\* have the wrong number or form, is answered "Invalid command." and reaches
\* no handler.
C3_InvalidCommand ==
    (op = "main" /\ ~WellFormed(command)) =>
        /\ pc = "running"
        /\ response = "Invalid command."
        /\ handler = ""

\* the same names, and under each name the same phones and birthday
SameBook(a, b) ==
    /\ dict_keys(a) = dict_keys(b)
    /\ \A k \in dict_keys(a) : dict_get(a, k) = dict_get(b, k)

\* C4: save_address_book(f) succeeds on every book, and load_address_book(f)
\* after it yields an equivalent book.
C4_SaveLoadRoundTrip ==
    op = "save_address_book" =>
        /\ exc = ""
        /\ LET r == load_address_book(data, files[args[1]])
           IN  r.exc = "" /\ SameBook(r.data, data)

\* the record a well-formed entry of a file stands for
EntryRecord(e) ==
    [name |-> e.name,
     phone |-> [j \in 1..Len(e.phone) |-> e.phone[j].value],
     birthday |-> IF truthy(e.birthday) THEN e.birthday ELSE None]

\* the file is missing or malformed, or holds an invalid phone or birthday
FileRejected(file) ==
    \/ file.kind # "json"
    \/ ~file.hasContacts
    \/ \E i \in 1..Len(file.contacts) :
           \/ ~(AllKeys \subseteq file.contacts[i].keys)
           \/ ~FieldsValid(EntryRecord(file.contacts[i]))

\* d holds exactly the records of the entries, the last one of each name
IsParsedFrom(d, entries) ==
    /\ dict_keys(d) = {entries[i].name : i \in 1..Len(entries)}
    /\ \A i \in 1..Len(entries) :
           (\A j \in (i + 1)..Len(entries) : entries[j].name # entries[i].name)
               => dict_get(d, entries[i].name) = EntryRecord(entries[i])

\* C5: load_address_book is all-or-nothing: on a missing or malformed file, or
\* one holding an invalid phone or birthday, it fails and leaves the book as
\* it was; otherwise the book is exactly the records of the file.
C5_LoadAllOrNothing ==
    [][op' = "load_address_book" =>
          LET file == files[args'[1]]
          IN  IF FileRejected(file)
              THEN exc' # "" /\ data' = data
              ELSE exc' = "" /\ IsParsedFrom(data', file.contacts)]_vars

\* one record per name, each under the key equal to its name
WellKeyed(d) ==
    /\ \A i, j \in 1..Len(d) : d[i].key = d[j].key => i = j
    /\ \A i \in 1..Len(d) : d[i].key = d[i].rec.name

\* C6: after add_record(r) the lookup of r's name gives r (a record of that
\* name already there is replaced), the records under other names are
\* unchanged, and the book always holds one record per name, under a key equal
\* to the record's name.
C6_AddRecord ==
    /\ []WellKeyed(data)
    /\ [][op' = "add_record" =>
             /\ dict_keys(data') = dict_keys(data) \cup {rec'.name}
             /\ dict_get(data', rec'.name) = rec'
             /\ \A k \in dict_keys(data) \ {rec'.name} :
                    dict_get(data', k) = dict_get(data, k)]_vars

\* add_record has replaced a record of the same name in a book of two
C6_Witness ==
    /\ op = "add_record"
    /\ Len(data) = 2
    /\ data[1].key = rec.name
    /\ data[1].rec = rec
    /\ rec.phone # << >>

----------------------------------------------------------------------------
(* The calendar, for the days to the next birthday *)

IsLeap(y) == (y % 4 = 0 /\ y % 100 # 0) \/ y % 400 = 0

DaysInMonth(y, m) ==
    IF m = 2 THEN (IF IsLeap(y) THEN 29 ELSE 28)
    ELSE IF m \in {4, 6, 9, 11} THEN 30 ELSE 31

RECURSIVE DaysBeforeMonth(_, _)
DaysBeforeMonth(y, m) ==
    IF m = 1 THEN 0 ELSE DaysBeforeMonth(y, m - 1) + DaysInMonth(y, m - 1)

DayOfYear(y, m, d) == DaysBeforeMonth(y, m) + d

DaysInYear(y) == IF IsLeap(y) THEN 366 ELSE 365

\* the days from the date t to the next day.month that is not before t
DaysToNext(t, day, month) ==
    IF month > t.m \/ (month = t.m /\ day >= t.d)
    THEN DayOfYear(t.y, month, day) - DayOfYear(t.y, t.m, t.d)
    ELSE DaysInYear(t.y) - DayOfYear(t.y, t.m, t.d) + DayOfYear(t.y + 1, month, day)

BirthdayDay(text) == py_int(str_split_sep(text, ".")[1]).val
BirthdayMonth(text) == py_int(str_split_sep(text, ".")[2]).val

\* C7: days_to_birthday() returns None without a birthday; with a valid
\* birthday it returns the days from today to the next occurrence of that
\* day.month (0 on the day itself, 364 or 365 the day after). 29 February,
\* which has no occurrence in some years, is left out.
C7_DaysToBirthday ==
    op = "days_to_birthday" =>
        IF rec.birthday.isNone
        THEN exc = "" /\ ret.isNone
        ELSE (/\ Birthday_validate(rec.birthday.v)
              /\ ~(BirthdayDay(rec.birthday.v) = 29 /\ BirthdayMonth(rec.birthday.v) = 2))
             => /\ exc = ""
                /\ ~ret.isNone
                /\ ret.v = DaysToNext(today, BirthdayDay(rec.birthday.v),
                                      BirthdayMonth(rec.birthday.v))

\* C8 as stated: edit_phone(old, new) sets the first phone equal to old to new
\* and leaves the rest of the list as it was; when no phone equals old, or new
\* is not digit-only (the call then fails with a validation error), the list
\* is as before.
C8_EditPhoneAsStated ==
    [][op' = "edit_phone" =>
          LET old == args'[1]
              new == args'[2]
          IN  IF Occurs(rec.phone, old) /\ Phone_validate(new)
              THEN /\ exc' = ""
                   /\ Len(rec'.phone) = Len(rec.phone)
                   /\ \A j \in 1..Len(rec.phone) :
                          rec'.phone[j] = IF j = FirstIndex(rec.phone, old) THEN new
                                          ELSE rec.phone[j]
              ELSE /\ rec'.phone = rec.phone
                   /\ ~Phone_validate(new) => exc' = "ValueError"]_vars

\* C8, amended: as C8, but the call fails with a validation error exactly when
\* some phone equals old and new is not digit-only; when no phone equals old
\* it returns normally whatever new is.
C8_EditPhone ==
    [][op' = "edit_phone" =>
          LET old == args'[1]
              new == args'[2]
          IN  IF Occurs(rec.phone, old) /\ Phone_validate(new)
              THEN /\ exc' = ""
                   /\ Len(rec'.phone) = Len(rec.phone)
                   /\ \A j \in 1..Len(rec.phone) :
                          rec'.phone[j] = IF j = FirstIndex(rec.phone, old) THEN new
                                          ELSE rec.phone[j]
              ELSE /\ rec'.phone = rec.phone
                   /\ exc' = IF Occurs(rec.phone, old) THEN "ValueError" ELSE ""]_vars

\* edit_phone has changed the first of several phones equal to old: a later
\* one is still in the list, after the new value
C8_Witness ==
    /\ op = "edit_phone"
    /\ exc = ""
    /\ args[1] # args[2]
    /\ \E i, j \in 1..Len(rec.phone) :
           i < j /\ rec.phone[i] = args[2] /\ rec.phone[j] = args[1]

\* the query, in any letter case, is part of the name or of a phone
Matches(r, query) ==
    \/ str_in(str_lower(query), str_lower(r.name))
    \/ \E j \in 1..Len(r.phone) : str_in(str_lower(query), str_lower(r.phone[j]))

\* C9: search_contacts(query) returns, in the book's order and once each,
\* exactly the records whose name or one of whose phones holds the query,
\* whatever the letter case of the query and of the stored text.
C9_SearchContacts ==
    op = "search_contacts" =>
        ret = SelectSeq(dict_values(data), LAMBDA r : Matches(r, args[1]))

IsChange(cmd) == Len(str_split(cmd)) = 3 /\ str_split(cmd)[1] = "change"
IsAdd(cmd) == Len(str_split(cmd)) \in {3, 4} /\ str_split(cmd)[1] = "add"

\* C10: an add or change command never removes or replaces a phone of a
\* contact: change on an existing contact with a digit-only phone appends it
\* and answers "Phone number changed successfully.", add for a name already in
\* the book leaves that contact's record as it was.
C10_PhonesKept ==
    [][(op' = "main" /\ (IsAdd(command') \/ IsChange(command'))) =>
          LET name == str_split(command')[2]
              phone == str_split(command')[3]
          IN  /\ \A k \in dict_keys(data) :
                     /\ k \in dict_keys(data')
                     /\ IsPrefix(dict_get(data, k).phone, dict_get(data', k).phone)
              /\ (IsChange(command') /\ name \in dict_keys(data) /\ str_isdigit(phone))
                     => /\ dict_get(data', name).phone
                            = Append(dict_get(data, name).phone, phone)
                        /\ response' = "Phone number changed successfully."
                        /\ pc' = "running"
              /\ (IsAdd(command') /\ name \in dict_keys(data))
                     => dict_get(data', name) = dict_get(data, name)]_vars

\* a change command has appended a digit-only phone to a contact that had one
C10_Witness ==
    /\ op = "main"
    /\ IsChange(command)
    /\ response = "Phone number changed successfully."
    /\ str_isdigit(str_split(command)[3])
    /\ str_split(command)[2] \in dict_keys(data)
    /\ Len(dict_get(data, str_split(command)[2]).phone) = 2

====
